---- MODULE Spec2Model ----
(***************************************************************************)
(* CountryCount (package users) and its caller BenchmarkCountryCount.       *)
(*                                                                         *)
(* The repository holds the same function over two layouts of User: the    *)
(* array variant (Image is [128*128]byte) and the slice variant (Image is   *)
(* []byte).  The Makefile links one of them into the package, so the       *)
(* variant is fixed for a whole run.  Maps are Go reference values: they    *)
(* live in a heap and are named by references, 0 being nil.  The users.go   *)
(* at the top of the tree is the slice variant once more, with Icon and     *)
(* Active in the other order; field order plays no part here.  Counts are   *)
(* Go ints: a count never exceeds len(users), so no count overflows.        *)
(***************************************************************************)
EXTENDS Integers, Sequences, FiniteSets, TLC

VARIABLES
    variant,    \* "array" or "slice": which users.go is linked in
    users,      \* package variable users []User of the benchmark
    N,          \* b.N, the number of benchmark iterations
    n,          \* the benchmark's loop variable i
    pc,         \* "bench", "loop", "check", "fatal"
    heap,       \* sequence of the maps allocated so far; a reference is an index
    counts,     \* CountryCount's local counts (a reference), NilRef outside a call
    idx,        \* number of elements the range loop has consumed
    m,          \* the benchmark's m, the last returned reference
    fatal,      \* b.Fatal was called
    muts,       \* number of writes the caller made to maps it was handed
    snap,       \* history: users, heap and m as they were when the call began
    hist        \* history: one record per returned call

vars == <<variant, users, N, n, pc, heap, counts, idx, m, fatal, muts, snap, hist>>

----------------------------------------------------------------------------
(* Bounds of the model *)

\* longest input of the single-call specification
MaxLen == 3
\* longest input of the repeated-call specification
MaxLenCalls == 2
\* largest b.N of the repeated-call specification
MaxN == 2
\* most writes the caller makes to maps it owns
MaxMuts == 1
\* number of goroutines of the concurrent specification
NumProcs == 2
\* longest input of the concurrent specification
MaxLenConc == 2

----------------------------------------------------------------------------
(* Data *)

\* Image is 128*128 bytes
ImageSize == 128 * 128

NilRef == 0

Variants == {"array", "slice"}

\* Country values the inputs draw from; the empty string is a legal key
Countries == {"AD", "BB", ""}

\* the nil slice and the nil Image
NilIcon == [isNil |-> TRUE, len |-> 0, fill |-> 0]

\* Image of the slice variant: nil, or len bytes all equal to fill
SliceIcon(l, f) == [isNil |-> FALSE, len |-> l, fill |-> f]

\* Image of the array variant: always ImageSize bytes, here all equal to fill
ArrayIcon(f) == [len |-> ImageSize, fill |-> f]

User(login, active, icon, country) ==
    [Login |-> login, Active |-> active, Icon |-> icon, Country |-> country]

\* a []User value: nil, or a slice over the elements arr
NilSlice == [isNil |-> TRUE, arr |-> <<>>]
Slice(arr) == [isNil |-> FALSE, arr |-> arr]

\* const size = 10_000
BenchSize == 10000

\* countries := []string{"AD", "BB", "CA", "DK"}
BenchCountries == <<"AD", "BB", "CA", "DK">>

\* users as init leaves it: a slice over the size elements init has filled and
\* that nothing writes afterwards.  The elements are not spelled out in the
\* slice value; BenchElem gives them.  ip says what the Icons are.
BenchUsers(v, ip) == [isNil |-> FALSE, bench |-> <<v, ip>>, size |-> BenchSize]

IsBenchUsers(s) == "bench" \in DOMAIN s

\* len(users)
SliceLen(s) == IF IsBenchUsers(s) THEN s.size ELSE Len(s.arr)

LoginPatterns == {"zero", "distinct"}
IconPatterns(v) == IF v = "array" THEN {"zero", "filled"}
                   ELSE {"nil", "alloc", "mixed"}

\* the Login of element j under a pattern: all unset (so all equal), or all
\* different
LoginAt(lp, j) == IF lp = "zero" THEN "" ELSE ToString(j)

\* the Icon of element j under a pattern.  Array variant: the zero array or a
\* filled one.  Slice variant: nil, make([]byte, 128*128), or a mix of nil
\* icons and icons of a wrong size.
IconAt(v, ip, j) ==
    IF v = "array"
    THEN IF ip = "zero" THEN ArrayIcon(0) ELSE ArrayIcon(j % 256)
    ELSE CASE ip = "nil" -> NilIcon
           [] ip = "alloc" -> SliceIcon(ImageSize, 0)
           [] OTHER -> IF j % 2 = 1 THEN SliceIcon(1, 255) ELSE NilIcon

\* element i = j-1 of users as init builds it: Active = i%5 > 0,
\* Country = countries[i%len(countries)], Login unset
BenchElem(s, j) ==
    User("", ((j - 1) % 5) > 0, IconAt(s.bench[1], s.bench[2], j),
         BenchCountries[((j - 1) % Len(BenchCountries)) + 1])

\* users[j-1]
ElemAt(s, j) == IF IsBenchUsers(s) THEN BenchElem(s, j) ELSE s.arr[j]

\* sequences of (Active, Country) pairs of length at most k
ACSeqs(k) == UNION {[1..l -> BOOLEAN \X Countries] : l \in 0..k}

\* the []User whose elements carry the pairs of ac, dressed by the patterns
Decorate(v, ac, lp, ip) ==
    Slice([j \in 1..Len(ac) |->
             User(LoginAt(lp, j), ac[j][1], IconAt(v, ip, j), ac[j][2])])

\* the (Active, Country) pairs of a []User
Pairs(s) == [j \in 1..SliceLen(s) |-> <<s.arr[j].Active, s.arr[j].Country>>]

\* the ways an input of variant v is dressed with Logins and Icons
Dressings(v) == LoginPatterns \X IconPatterns(v)

\* every input of variant v with at most k elements
Inputs(v, k) ==
    {NilSlice} \cup
    {Decorate(v, ac, d[1], d[2]) : ac \in ACSeqs(k), d \in Dressings(v)}

\* the inputs of the repeated-call specification: one dressing per variant,
\* the one whose records differ most from one another
CallInputs(v, k) ==
    {NilSlice} \cup
    {Decorate(v, ac, "distinct", IF v = "array" THEN "filled" ELSE "mixed") :
        ac \in ACSeqs(k)}

----------------------------------------------------------------------------
(* Go maps *)

\* make(map[string]int)
EmptyMap == [k \in {} |-> 0]

\* m[k] read: the zero value when k is absent
MapGet(mp, k) == IF k \in DOMAIN mp THEN mp[k] ELSE 0

\* m[k] = v
MapSet(mp, k, v) == [x \in DOMAIN mp \cup {k} |-> IF x = k THEN v ELSE mp[x]]

\* delete(m, k)
MapDelete(mp, k) == [x \in DOMAIN mp \ {k} |-> mp[x]]

\* mutant: the function keeps one map and hands it out again
AllocReuse(h) ==
    IF h = <<>> THEN [heap |-> <<EmptyMap>>, ref |-> 1]
    ELSE [heap |-> h, ref |-> Len(h)]

\* counts := make(map[string]int): a new map on the heap and its reference
Alloc(h) == [heap |-> Append(h, EmptyMap), ref |-> Len(h) + 1]

----------------------------------------------------------------------------
(* CountryCount *)

\* mutant: counts[u.Country] = 1 instead of ++
BodySliceSetOne(cs, u) ==
    IF ~u.Active THEN cs ELSE MapSet(cs, u.Country, 1)

\* mutant: an inactive user adds 0 to its country instead of being skipped
BodySliceTouch(cs, u) ==
    MapSet(cs, u.Country, MapGet(cs, u.Country) + (IF u.Active THEN 1 ELSE 0))

\* mutant: the Active test is missing
BodySliceNoSkip(cs, u) ==
    MapSet(cs, u.Country, MapGet(cs, u.Country) + 1)

\* mutant: users without a country are skipped too
BodySliceSkipsNoCountry(cs, u) ==
    IF ~u.Active \/ u.Country = ""
    THEN cs
    ELSE MapSet(cs, u.Country, MapGet(cs, u.Country) + 1)

\* mutant: users without an icon are skipped too
BodySliceNeedsIcon(cs, u) ==
    IF ~u.Active \/ u.Icon.isNil
    THEN cs
    ELSE MapSet(cs, u.Country, MapGet(cs, u.Country) + 1)

\* slice variant, body of the range loop for element u
BodySlice(cs, u) ==
    IF ~u.Active
    THEN cs
    ELSE MapSet(cs, u.Country, MapGet(cs, u.Country) + 1)

\* mutant: the array variant tests Active the wrong way round
BodyArrayInverted(cs, u) ==
    IF u.Active
    THEN cs
    ELSE MapSet(cs, u.Country, MapGet(cs, u.Country) + 1)

\* array variant, body of the range loop for element u
BodyArray(cs, u) ==
    IF ~u.Active
    THEN cs
    ELSE MapSet(cs, u.Country, MapGet(cs, u.Country) + 1)

\* the body of the variant that is linked in
Body(v, cs, u) == IF v = "array" THEN BodyArray(cs, u) ELSE BodySlice(cs, u)

\* mutant: an inactive user is looked at again and again
NextIdxStuck(s, j, u) == IF ~u.Active THEN j ELSE j + 1

\* mutant: break instead of continue
NextIdxBreak(s, j, u) == IF ~u.Active THEN SliceLen(s) ELSE j + 1

\* where the range loop goes after element j+1 (u): continue and the end of
\* the body both move on to the next element
NextIdx(s, j, u) == j + 1

\* the range loop from element j+1 on, starting with the map cs
RECURSIVE RangeSlice(_, _, _)
RangeSlice(cs, s, j) ==
    IF j >= SliceLen(s) THEN cs
    ELSE RangeSlice(BodySlice(cs, ElemAt(s, j + 1)), s,
                    NextIdx(s, j, ElemAt(s, j + 1)))

RECURSIVE RangeArray(_, _, _)
RangeArray(cs, s, j) ==
    IF j >= SliceLen(s) THEN cs
    ELSE RangeArray(BodyArray(cs, ElemAt(s, j + 1)), s,
                    NextIdx(s, j, ElemAt(s, j + 1)))

\* the map a whole call builds
CountryCountSlice(s) == RangeSlice(EmptyMap, s, 0)
CountryCountArray(s) == RangeArray(EmptyMap, s, 0)
CountryCount(v, s) ==
    IF v = "array" THEN CountryCountArray(s) ELSE CountryCountSlice(s)

\* mutant: nil is returned when nothing was counted
ResultNilWhenEmpty(h, c) == IF h[c] = EmptyMap THEN NilRef ELSE c

\* return counts: the reference the call hands back, given the heap h
Result(h, c) == c

----------------------------------------------------------------------------
(* The state machine *)

InitCommon ==
    /\ variant \in Variants
    /\ n = 0
    /\ pc = "bench"
    /\ heap = <<>>
    /\ counts = NilRef
    /\ idx = 0
    /\ m = NilRef
    /\ fatal = FALSE
    /\ muts = 0
    /\ snap = [users |-> NilSlice, heap |-> <<>>, m |-> NilRef]
    /\ hist = <<>>

\* one benchmark iteration over every input
Init ==
    /\ InitCommon
    /\ N = 1
    /\ users \in Inputs(variant, MaxLen)

\* several benchmark iterations
InitCalls ==
    /\ InitCommon
    /\ N \in 2..MaxN
    /\ users \in CallInputs(variant, MaxLenCalls)

\* mutant: the map is made only when there is something to range over
CallLazy ==
    /\ pc = "bench"
    /\ n < N
    /\ LET a == IF SliceLen(users) = 0 THEN [heap |-> heap, ref |-> NilRef]
                ELSE Alloc(heap) IN
         /\ heap' = a.heap
         /\ counts' = a.ref
    /\ idx' = 0
    /\ snap' = [users |-> users, heap |-> heap, m |-> m]
    /\ pc' = "loop"
    /\ UNCHANGED <<variant, users, N, n, m, fatal, muts, hist>>

\* m := CountryCount(users): entry, and counts := make(map[string]int)
Call ==
    /\ pc = "bench"
    /\ n < N
    /\ LET a == Alloc(heap) IN
         /\ heap' = a.heap
         /\ counts' = a.ref
    /\ idx' = 0
    /\ snap' = [users |-> users, heap |-> heap, m |-> m]
    /\ pc' = "loop"
    /\ UNCHANGED <<variant, users, N, n, m, fatal, muts, hist>>

\* mutant: the loop ranges by index and clears Active on the users it counted
LoopIterMarks ==
    /\ pc = "loop"
    /\ idx < SliceLen(users)
    /\ LET u == users.arr[idx + 1] IN
         /\ heap' = [heap EXCEPT ![counts] = Body(variant, @, u)]
         /\ users' = [users EXCEPT !.arr[idx + 1].Active = FALSE]
    /\ idx' = NextIdx(users, idx, users.arr[idx + 1])
    /\ UNCHANGED <<variant, N, n, pc, counts, m, fatal, muts, snap, hist>>

\* one iteration of for _, u := range users
LoopIter ==
    /\ pc = "loop"
    /\ idx < SliceLen(users)
    /\ LET u == ElemAt(users, idx + 1) IN
         heap' = [heap EXCEPT ![counts] = Body(variant, @, u)]
    /\ idx' = NextIdx(users, idx, ElemAt(users, idx + 1))
    /\ UNCHANGED <<variant, users, N, n, pc, counts, m, fatal, muts, snap, hist>>

\* the range is exhausted: return counts, assigned to the benchmark's m
Return ==
    /\ pc = "loop"
    /\ idx >= SliceLen(users)
    /\ LET r == Result(heap, counts) IN
         /\ m' = r
         /\ hist' = Append(hist, [input |-> users, ref |-> r,
                                  output |-> IF r = NilRef THEN EmptyMap ELSE heap[r],
                                  before |-> snap.heap])
    /\ counts' = NilRef
    /\ idx' = 0
    /\ pc' = "check"
    /\ UNCHANGED <<variant, users, N, n, heap, fatal, muts, snap>>

\* if m == nil { b.Fatal(m) }, then i++
Check ==
    /\ pc = "check"
    /\ IF m = NilRef
       THEN /\ fatal' = TRUE
            /\ pc' = "fatal"
            /\ n' = n
       ELSE /\ fatal' = FALSE
            /\ pc' = "bench"
            /\ n' = n + 1
    /\ UNCHANGED <<variant, users, N, heap, counts, idx, m, muts, snap, hist>>

\* values the caller writes into maps it owns
MutVals == {0, 7}

\* the caller writes to the map it was handed: m[k] = v or delete(m, k)
CallerMutate ==
    /\ pc = "bench"
    /\ 0 < n /\ n < N
    /\ muts < MaxMuts
    /\ m # NilRef
    /\ \E k \in Countries, v \in MutVals, del \in BOOLEAN :
           /\ heap' = [heap EXCEPT ![m] = IF del THEN MapDelete(@, k)
                                          ELSE MapSet(@, k, v)]
           /\ heap' # heap
    /\ muts' = muts + 1
    /\ UNCHANGED <<variant, users, N, n, pc, counts, idx, m, fatal, snap, hist>>

\* the caller reslices its input between calls: users = users[1:]
CallerReslice ==
    /\ pc = "bench"
    /\ 0 < n /\ n < N
    /\ SliceLen(users) > 0
    /\ users' = Slice(Tail(users.arr))
    /\ UNCHANGED <<variant, N, n, pc, heap, counts, idx, m, fatal, muts, snap, hist>>

Next == Call \/ LoopIter \/ Return \/ Check

NextCalls == Next \/ CallerMutate \/ CallerReslice

Spec == Init /\ [][Next]_vars

SpecCalls == InitCalls /\ [][NextCalls]_vars

\* the single call, run to its end: the benchmark is one sequential program
\* that nothing preempts for ever, so a step that can be taken is taken
SpecFair == Init /\ [][Next]_vars /\ WF_vars(Next)

----------------------------------------------------------------------------
(* Scenario 1: five records *)

\* categories AD, BB, CA, DK, AD with active true, true, false, true, true
Scenario1Pairs ==
    << <<TRUE, "AD">>, <<TRUE, "BB">>, <<FALSE, "CA">>, <<TRUE, "DK">>,
       <<TRUE, "AD">> >>

\* the benchmark run over the five records, under every dressing
InitScenario1 ==
    /\ InitCommon
    /\ N \in 1..MaxN
    /\ users \in {Decorate(variant, Scenario1Pairs, d[1], d[2]) :
                    d \in Dressings(variant)}

SpecScenario1 == InitScenario1 /\ [][Next]_vars

----------------------------------------------------------------------------
(* The benchmark's data set *)

\* the Icons init leaves: the zero array; for the slice variant nil, or
\* make([]byte, 128*128) as the article's slice listing does
BenchIcons(v) == IF v = "array" THEN {"zero"} ELSE {"nil", "alloc"}

\* one benchmark iteration over the data set
InitBench ==
    /\ InitCommon
    /\ N = 1
    /\ users \in {BenchUsers(variant, ip) : ip \in BenchIcons(variant)}

SpecBench == InitBench /\ [][Next]_vars

----------------------------------------------------------------------------
(* Concurrent calls *)

(* Several goroutines each run m := CountryCount(users) over the same users, *)
(* which no one writes.  Each goroutine has its own frame, so here pc,       *)
(* counts, idx and m hold one value per goroutine; the heap and users are    *)
(* shared.  Every step of a call is one atomic step of the interleaving.     *)

Procs == 1..NumProcs

InitConc ==
    /\ variant \in Variants
    /\ users \in CallInputs(variant, MaxLenConc)
    /\ N = NumProcs
    /\ n = 0
    /\ pc = [p \in Procs |-> "start"]
    /\ heap = <<>>
    /\ counts = [p \in Procs |-> NilRef]
    /\ idx = [p \in Procs |-> 0]
    /\ m = [p \in Procs |-> NilRef]
    /\ fatal = FALSE
    /\ muts = 0
    /\ snap = [users |-> users, heap |-> <<>>, m |-> NilRef]
    /\ hist = <<>>

\* goroutine p enters CountryCount: counts := make(map[string]int)
GoCall(p) ==
    /\ pc[p] = "start"
    /\ LET a == Alloc(heap) IN
         /\ heap' = a.heap
         /\ counts' = [counts EXCEPT ![p] = a.ref]
    /\ idx' = [idx EXCEPT ![p] = 0]
    /\ pc' = [pc EXCEPT ![p] = "loop"]
    /\ UNCHANGED <<variant, users, N, n, m, fatal, muts, snap, hist>>

\* goroutine p runs one iteration of its range loop
GoLoopIter(p) ==
    /\ pc[p] = "loop"
    /\ idx[p] < SliceLen(users)
    /\ LET u == ElemAt(users, idx[p] + 1) IN
         /\ heap' = [heap EXCEPT ![counts[p]] = Body(variant, @, u)]
         /\ idx' = [idx EXCEPT ![p] = NextIdx(users, idx[p], u)]
    /\ UNCHANGED <<variant, users, N, n, pc, counts, m, fatal, muts, snap, hist>>

\* goroutine p returns counts to its caller's m
GoReturn(p) ==
    /\ pc[p] = "loop"
    /\ idx[p] >= SliceLen(users)
    /\ m' = [m EXCEPT ![p] = Result(heap, counts[p])]
    /\ counts' = [counts EXCEPT ![p] = NilRef]
    /\ idx' = [idx EXCEPT ![p] = 0]
    /\ pc' = [pc EXCEPT ![p] = "done"]
    /\ n' = n + 1
    /\ UNCHANGED <<variant, users, N, heap, fatal, muts, snap, hist>>

NextConc == \E p \in Procs : GoCall(p) \/ GoLoopIter(p) \/ GoReturn(p)

SpecConc == InitConc /\ [][NextConc]_vars

----------------------------------------------------------------------------
(* What the claims speak of *)

\* the positions of s holding an active user of country c
ActiveAt(s, c) == {j \in 1..SliceLen(s) : s.arr[j].Active /\ s.arr[j].Country = c}

\* the positions of s holding an active user
ActiveIn(s) == {j \in 1..SliceLen(s) : s.arr[j].Active}

\* the countries of the active users of s
ActiveCountries(s) == {s.arr[j].Country : j \in ActiveIn(s)}

\* the sum of the values of a map
RECURSIVE SumOver(_, _)
SumOver(mp, S) ==
    IF S = {} THEN 0
    ELSE LET k == CHOOSE x \in S : TRUE IN mp[k] + SumOver(mp, S \ {k})
SumValues(mp) == SumOver(mp, DOMAIN mp)

\* s with its elements rearranged by the permutation p of 1..len(s)
Permute(s, p) == [s EXCEPT !.arr = [j \in 1..SliceLen(s) |-> s.arr[p[j]]]]

\* the inputs of variant w that agree with s on Active and Country at every
\* position, under every dressing of Login and Icon
Alternates(w, s) ==
    {Decorate(w, Pairs(s), d[1], d[2]) : d \in Dressings(w)}
    \cup (IF SliceLen(s) = 0 THEN {NilSlice} ELSE {})

OtherVariant(v) == IF v = "array" THEN "slice" ELSE "array"

\* the calls that have returned
Returned == 1..Len(hist)

----------------------------------------------------------------------------
(* Claims *)

\* C1: for every input and every country c that occurs on at least one active
\* record, the returned map has M[c] = the number of records that are active
\* and have Country = c.
C1_CountPerActiveCountry ==
    \A k \in Returned :
      \A c \in ActiveCountries(hist[k].input) :
        /\ c \in DOMAIN hist[k].output
        /\ hist[k].output[c] = Cardinality(ActiveAt(hist[k].input, c))

\* a call returned whose input has a country on two active records and on an
\* inactive one
C1_Witness ==
    \E k \in Returned : \E c \in Countries :
      /\ Cardinality(ActiveAt(hist[k].input, c)) >= 2
      /\ \E j \in 1..SliceLen(hist[k].input) :
           /\ ~hist[k].input.arr[j].Active
           /\ hist[k].input.arr[j].Country = c

\* C2: c is a key of the returned map iff some record is active with Country c;
\* a country seen only on inactive records, or not at all, is absent, and no
\* key maps to 0.
C2_KeysAreActiveCountries ==
    \A k \in Returned :
      /\ DOMAIN hist[k].output = ActiveCountries(hist[k].input)
      /\ \A c \in Countries :
           c \in DOMAIN hist[k].output <=> ActiveAt(hist[k].input, c) # {}
      /\ \A c \in DOMAIN hist[k].output : hist[k].output[c] # 0

\* a call returned whose input has one country active, another only on
\* inactive records and a third not at all
C2_Witness ==
    \E k \in Returned : \E c1, c2, c3 \in Countries :
      /\ ActiveAt(hist[k].input, c1) # {}
      /\ ActiveAt(hist[k].input, c2) = {}
      /\ \E j \in 1..SliceLen(hist[k].input) : hist[k].input.arr[j].Country = c2
      /\ \A j \in 1..SliceLen(hist[k].input) : hist[k].input.arr[j].Country # c3

\* C3: the values of the returned map sum to the number of active records.
C3_SumIsActiveCount ==
    \A k \in Returned :
      SumValues(hist[k].output) = Cardinality(ActiveIn(hist[k].input))

\* a call returned whose input has active records of two countries and an
\* inactive record
C3_Witness ==
    \E k \in Returned :
      /\ Cardinality(ActiveCountries(hist[k].input)) >= 2
      /\ Cardinality(ActiveIn(hist[k].input)) < SliceLen(hist[k].input)

\* C4: whatever the input, the returned value is a map and never nil, so the
\* benchmark's m == nil is never true and b.Fatal is never reached.
C4_NeverNil ==
    /\ \A k \in Returned : hist[k].ref \in 1..Len(heap)
    /\ pc = "check" => m # NilRef
    /\ ~fatal
    /\ pc # "fatal"

\* the benchmark's check has run on the result of a non-empty input whose
\* records are all inactive
C4_Witness ==
    /\ n = 1
    /\ pc = "bench"
    /\ SliceLen(users) > 0
    /\ ActiveIn(users) = {}
    /\ Len(hist) = 1

\* C5: an input of length 0, the nil slice included, gives an empty map: a
\* map with no keys, not nil, and no failure.
C5_EmptyInputEmptyMap ==
    /\ \A k \in Returned :
         SliceLen(hist[k].input) = 0 =>
           /\ hist[k].ref # NilRef
           /\ hist[k].ref \in 1..Len(heap)
           /\ hist[k].output = EmptyMap
           /\ DOMAIN heap[hist[k].ref] = {}
    /\ SliceLen(users) = 0 => ~fatal

\* the call on the nil slice has returned and passed the benchmark's check
C5_Witness ==
    /\ Len(hist) = 1
    /\ hist[1].input = NilSlice
    /\ n = 1

\* C6: order-independence: every permutation of the input gives the same map,
\* key for key and count for count.
C6_OrderIndependent ==
    \A k \in Returned :
      \A p \in Permutations(1..SliceLen(hist[k].input)) :
        CountryCount(variant, Permute(hist[k].input, p)) = hist[k].output

\* a call returned whose input has an inactive record before active records
\* of two countries, so that its permutations differ as sequences
C6_Witness ==
    \E k \in Returned :
      /\ SliceLen(hist[k].input) >= 3
      /\ ~hist[k].input.arr[1].Active
      /\ Cardinality(ActiveCountries(hist[k].input)) >= 2

\* C7: representational equivalence: an array-variant input and a slice-variant
\* input that agree position by position on Active and Country give identical
\* maps under the array-variant and the slice-variant CountryCount, whether
\* the slice icons are allocated or nil.
C7_VariantsAgree ==
    \A k \in Returned :
      \A alt \in Alternates(OtherVariant(variant), hist[k].input) :
        CountryCount(OtherVariant(variant), alt) = hist[k].output

\* the slice variant returned on an input that has an active user whose Icon
\* is nil, an active user whose Icon is allocated, and an inactive user
C7_Witness ==
    /\ variant = "slice"
    /\ \E k \in Returned :
         /\ \E j \in ActiveIn(hist[k].input) : hist[k].input.arr[j].Icon.isNil
         /\ \E j \in ActiveIn(hist[k].input) : ~hist[k].input.arr[j].Icon.isNil
         /\ ActiveIn(hist[k].input) # 1..SliceLen(hist[k].input)

\* C8: the result depends on Active and Country alone: inputs of equal length
\* that agree on them at every position, whatever their Logins (duplicates
\* included) and Icons (nil or of a wrong size included), give identical
\* maps, and none of their records is rejected: every active one is counted.
C8_OnlyActiveAndCountry ==
    \A k \in Returned :
      \A alt \in Alternates(variant, hist[k].input) :
        /\ CountryCount(variant, alt) = hist[k].output
        /\ SumValues(CountryCount(variant, alt)) = Cardinality(ActiveIn(alt))

\* the slice variant returned on an input with two active users of the same
\* Login, one with a nil Icon and one with an Icon of a wrong size
C8_Witness ==
    /\ variant = "slice"
    /\ \E k \in Returned : \E i, j \in ActiveIn(hist[k].input) :
         /\ i # j
         /\ hist[k].input.arr[i].Login = hist[k].input.arr[j].Login
         /\ hist[k].input.arr[i].Icon.isNil
         /\ ~hist[k].input.arr[j].Icon.isNil
         /\ hist[k].input.arr[j].Icon.len # ImageSize

\* C9: a call has no side effects: while it runs and when it has returned the
\* input has the length and the records (Login, Active, Icon, Country) it had
\* when the call began, and nothing but the map the call made is written: the
\* maps allocated before are as they were, and the caller's m is assigned only
\* by the return.
C9_NoSideEffects ==
    pc \in {"loop", "check"} =>
      /\ users = snap.users
      /\ Len(heap) = Len(snap.heap) + 1
      /\ \A r \in 1..Len(snap.heap) : heap[r] = snap.heap[r]
      /\ pc = "loop" => m = snap.m
      /\ pc = "check" => hist[Len(hist)].input = snap.users

\* a second call has returned, over an input with active users, while the
\* heap held a non-empty map from before
C9_Witness ==
    /\ pc = "check"
    /\ Len(snap.heap) >= 1
    /\ snap.heap[1] # EmptyMap
    /\ SliceLen(users) >= 2
    /\ ActiveIn(users) # {}

\* the map CountryCount should build for s, stated without the loop
ExpectedMap(s) == [c \in ActiveCountries(s) |-> Cardinality(ActiveAt(s, c))]

\* C10: every call makes a fresh map and keeps no reference to it or to the
\* input: whatever the caller wrote to earlier results between the calls,
\* each call returns the counts of its own input, in a map that did not exist
\* before the call; two calls on the same input return equal maps that are
\* not the same map.
C10_FreshMapPerCall ==
    /\ \A k \in Returned :
         /\ hist[k].output = ExpectedMap(hist[k].input)
         /\ hist[k].ref \notin 1..Len(hist[k].before)
    /\ \A a, b \in Returned :
         a < b =>
           /\ hist[a].ref # hist[b].ref
           /\ hist[a].input = hist[b].input => hist[a].output = hist[b].output

\* two calls on the same input have returned non-empty maps, and the caller
\* wrote to the first map in between
C10_Witness ==
    /\ Len(hist) >= 2
    /\ muts >= 1
    /\ hist[1].input = hist[2].input
    /\ hist[2].output # EmptyMap
    /\ heap[hist[1].ref] # hist[1].output

\* the first j elements of s
Prefix(s, j) == Slice(SubSeq(s.arr, 1, j))

\* the map goroutine p is building or has returned
RefOf(p) == IF pc[p] = "loop" THEN counts[p] ELSE m[p]

\* C11: concurrent calls over the same, unwritten users are safe: however the
\* loop steps interleave, each call builds only its own map (the map of a
\* call in its loop is what the call alone would have built from the records
\* it has consumed, and no two calls hold the same map), and each call
\* returns what it would return when run alone.
C11_ConcurrentCallsIndependent ==
    /\ users = snap.users
    /\ \A p \in Procs :
         /\ pc[p] = "loop" =>
              /\ counts[p] \in 1..Len(heap)
              /\ heap[counts[p]] = CountryCount(variant, Prefix(users, idx[p]))
         /\ pc[p] = "done" =>
              /\ m[p] \in 1..Len(heap)
              /\ heap[m[p]] = CountryCount(variant, users)
    /\ \A p, q \in Procs :
         (p # q /\ pc[p] # "start" /\ pc[q] # "start") => RefOf(p) # RefOf(q)

\* two calls are in their loops at different positions, both having counted
\* something, while the later-started one is ahead
C11_Witness ==
    /\ pc[1] = "loop" /\ pc[2] = "loop"
    /\ idx[1] >= 1 /\ idx[2] > idx[1]
    /\ counts[1] > counts[2]
    /\ heap[counts[1]] # EmptyMap
    /\ heap[counts[2]] # heap[counts[1]]

\* C12 as stated: on the five records of scenario 1 the call returns exactly
\* {"AD": 2, "CA": 1, "DK": 1}, with "BB" absent.
C12_AsStated ==
    \A k \in Returned :
      /\ hist[k].output = ("AD" :> 2 @@ "CA" :> 1 @@ "DK" :> 1)
      /\ "BB" \notin DOMAIN hist[k].output

\* C12, amended: on the five records of scenario 1 (categories AD, BB, CA, DK,
\* AD; active true, true, false, true, true) the call returns exactly
\* {"AD": 2, "BB": 1, "DK": 1}: "BB" is on an active record and is counted,
\* "CA" is on the inactive record and is absent.
C12_Scenario1 ==
    \A k \in Returned :
      /\ hist[k].output = ("AD" :> 2 @@ "BB" :> 1 @@ "DK" :> 1)
      /\ "CA" \notin DOMAIN hist[k].output

\* a call over the five records has returned and passed the benchmark's check
C12_Witness ==
    /\ Len(hist) >= 1
    /\ Pairs(hist[1].input) = Scenario1Pairs
    /\ n >= 1

\* the positions of s holding an inactive user
BenchInactive(s) == {j \in 1..SliceLen(s) : ~ElemAt(s, j).Active}

\* C13: in the benchmark's data set of 10,000 records (record i has Country
\* AD, BB, CA, DK by i mod 4 and is active iff i mod 5 > 0) exactly 2,000
\* records, 20%, are inactive, and the call returns the four keys AD, BB, CA,
\* DK, each with count 2000.
C13_BenchmarkCounts ==
    /\ pc = "bench" =>
         /\ SliceLen(users) = 10000
         /\ Cardinality(BenchInactive(users)) = 2000
         /\ 5 * Cardinality(BenchInactive(users)) = SliceLen(users)
    /\ \A k \in Returned :
         /\ DOMAIN hist[k].output = {"AD", "BB", "CA", "DK"}
         /\ \A c \in DOMAIN hist[k].output : hist[k].output[c] = 2000

\* the call over the 10,000 records has returned and passed the benchmark's
\* check
C13_Witness ==
    /\ Len(hist) = 1
    /\ SliceLen(hist[1].input) = 10000
    /\ n = 1

\* the effect one iteration over the record u may have, from the map old
\* to the map new
StepEffect(old, new, u) ==
    IF ~u.Active
    THEN new = old
    ELSE /\ DOMAIN new = DOMAIN old \cup {u.Country}
         /\ new[u.Country] = IF u.Country \in DOMAIN old
                             THEN old[u.Country] + 1 ELSE 1
         /\ \A c \in DOMAIN old \ {u.Country} : new[c] = old[c]

\* C14: the step for one record: an inactive record leaves the counts map as
\* it is; an active record of country c sets counts[c] to 1 if c was absent
\* and to its value + 1 otherwise, and leaves every other entry as it is.
C14_PerRecordStep ==
    [][(pc = "loop" /\ pc' = "loop") =>
         StepEffect(heap[counts], heap'[counts], ElemAt(users, idx + 1))]_vars

\* the loop has processed an active record of a country not yet counted, an
\* inactive record, and an active record of the country already counted
C14_Witness ==
    /\ pc = "loop"
    /\ idx = 3
    /\ users.arr[1].Active /\ ~users.arr[2].Active /\ users.arr[3].Active
    /\ users.arr[1].Country = users.arr[3].Country
    /\ heap[counts][users.arr[1].Country] = 2

\* the steps of one call: it starts before the first record, every iteration
\* consumes exactly the next record, and it returns, a map, only when all
\* SliceLen(users) records have been consumed
SinglePass ==
    /\ (pc = "bench" /\ pc' = "loop") => idx' = 0
    /\ (pc = "loop" /\ pc' = "loop") =>
         /\ idx < SliceLen(users)
         /\ idx' = idx + 1
    /\ (pc = "loop" /\ pc' = "check") =>
         /\ idx = SliceLen(users)
         /\ m' # NilRef
    /\ pc' # "fatal"

\* C15: on every input of length n the call terminates and returns normally
\* after one pass of exactly n iterations that takes the records one by one
\* in index order, with no second pass.
C15_SinglePassTerminates ==
    /\ [][SinglePass]_vars
    /\ (pc = "loop") ~> (pc = "check")
    /\ <>(pc = "bench" /\ n = 1 /\ ~fatal)

\* a call over an input of the greatest length, with inactive and active
\* records, has returned
C15_Witness ==
    /\ pc = "check"
    /\ Len(hist) = 1
    /\ SliceLen(users) = MaxLen
    /\ ActiveIn(users) # {}
    /\ ActiveIn(users) # 1..SliceLen(users)

\* the positions of s holding an active user of country c and Login l
ActiveWith(s, c, l) == {j \in ActiveAt(s, c) : s.arr[j].Login = l}

\* C16: Country values are unconstrained: the empty string is a key like any
\* other, present iff some active record has Country "", with the number of
\* such records as its count; and records with the same Login are counted
\* one by one, not once per Login.
C16_EmptyCountryAndSameLogin ==
    \A k \in Returned :
      /\ "" \in DOMAIN hist[k].output <=> ActiveAt(hist[k].input, "") # {}
      /\ "" \in DOMAIN hist[k].output =>
           hist[k].output[""] = Cardinality(ActiveAt(hist[k].input, ""))
      /\ \A c \in DOMAIN hist[k].output :
           \A j \in ActiveAt(hist[k].input, c) :
             hist[k].output[c] >=
               Cardinality(ActiveWith(hist[k].input, c,
                                      hist[k].input.arr[j].Login))

\* a call returned whose input has two active records with the same Login and
\* the Country "", and an inactive record
C16_Witness ==
    \E k \in Returned : \E i, j \in ActiveAt(hist[k].input, "") :
      /\ i # j
      /\ hist[k].input.arr[i].Login = hist[k].input.arr[j].Login
      /\ hist[k].output[""] = 2
      /\ SliceLen(hist[k].input) = 3

\* during the loop the map built so far is the counts of the records consumed
LoopInvariant ==
    pc = "loop" =>
      /\ idx \in 0..SliceLen(users)
      /\ heap[counts] = ExpectedMap(Prefix(users, idx))

\* an iteration removes no key and lowers no count
NoLoss ==
    (pc = "loop" /\ pc' = "loop") =>
      /\ DOMAIN heap[counts] \subseteq DOMAIN heap'[counts]
      /\ \A c \in DOMAIN heap[counts] : heap'[counts][c] >= heap[counts][c]

\* C17: loop invariant: after the first k records the counts map is the
\* active-per-country counts of the prefix of length k; so during the pass no
\* key is removed and no count decreases.
C17_LoopInvariant == []LoopInvariant /\ [][NoLoss]_vars

\* the loop stands between two records, having passed an inactive one and
\* counted an active one
C17_Witness ==
    /\ pc = "loop"
    /\ 0 < idx /\ idx < SliceLen(users)
    /\ heap[counts] # EmptyMap
    /\ \E j \in 1..idx : ~users.arr[j].Active

\* the elements of s after the first j
Suffix(s, j) == Slice(SubSeq(s.arr, j + 1, SliceLen(s)))

\* s without its element j
Without(s, j) == Slice(SubSeq(s.arr, 1, j - 1) \o SubSeq(s.arr, j + 1, SliceLen(s)))

\* s with an inactive record of country c put in after its first j elements
WithInactive(s, j, c) ==
    Slice(SubSeq(s.arr, 1, j)
          \o <<User("", FALSE,
                    IF variant = "array" THEN ArrayIcon(0) ELSE NilIcon, c)>>
          \o SubSeq(s.arr, j + 1, SliceLen(s)))

\* the key-wise sum of two maps, a missing key counting as 0
MapAdd(a, b) ==
    [c \in DOMAIN a \cup DOMAIN b |->
       (IF c \in DOMAIN a THEN a[c] ELSE 0) + (IF c \in DOMAIN b THEN b[c] ELSE 0)]

\* C18: concatenation law: the map of a ++ b is the key-wise sum of the map of
\* a and the map of b; in particular putting in or taking out inactive records
\* anywhere leaves the result as it is.
C18_Concatenation ==
    \A k \in Returned :
      /\ \A j \in 0..SliceLen(hist[k].input) :
           MapAdd(CountryCount(variant, Prefix(hist[k].input, j)),
                  CountryCount(variant, Suffix(hist[k].input, j)))
             = hist[k].output
      /\ \A j \in 1..SliceLen(hist[k].input) :
           ~hist[k].input.arr[j].Active =>
             CountryCount(variant, Without(hist[k].input, j)) = hist[k].output
      /\ \A j \in 0..SliceLen(hist[k].input) : \A c \in Countries :
           CountryCount(variant, WithInactive(hist[k].input, j, c))
             = hist[k].output

\* a call returned whose input has the same country active on both sides of
\* an inactive record
C18_Witness ==
    \E k \in Returned :
      /\ SliceLen(hist[k].input) = 3
      /\ hist[k].input.arr[1].Active
      /\ ~hist[k].input.arr[2].Active
      /\ hist[k].input.arr[3].Active
      /\ hist[k].input.arr[1].Country = hist[k].input.arr[3].Country

\* the Country values that occur in s
CountriesOf(s) == {s.arr[j].Country : j \in 1..SliceLen(s)}

\* C19: bounds: for an input of length n every value of the returned map is
\* between 1 and n, and the map has at most as many keys as the input has
\* active records and as it has distinct Country values.
C19_Bounds ==
    \A k \in Returned :
      /\ \A c \in DOMAIN hist[k].output :
           /\ hist[k].output[c] \in Int
           /\ 1 <= hist[k].output[c]
           /\ hist[k].output[c] <= SliceLen(hist[k].input)
      /\ Cardinality(DOMAIN hist[k].output) <= Cardinality(ActiveIn(hist[k].input))
      /\ Cardinality(DOMAIN hist[k].output) <= Cardinality(CountriesOf(hist[k].input))

\* a call returned on an input of the greatest length whose records are all
\* active with one country, so that a count reaches n
C19_Witness ==
    \E k \in Returned :
      /\ SliceLen(hist[k].input) = 3
      /\ \E c \in DOMAIN hist[k].output : hist[k].output[c] = 3

====
